---- MODULE Spec2Model ----
(***************************************************************************)
(* A model of the DuckDB data-source driver of pkg/plugin/duckdb_driver.go *)
(* : the Connect function with its mutex-guarded one-time boot sequence,   *)
(* the two time macros, the HUGEINT converter, the string converters of    *)
(* the narrow integer types and the list of converters.                    *)
(*                                                                         *)
(* Strings are sequences of one-character strings.  A literal fragment of  *)
(* the source that the model never looks inside (a statement keyword, a    *)
(* message text) is kept as one element.                                   *)
(***************************************************************************)
EXTENDS Integers, Sequences, FiniteSets, TLC

VARIABLES
    mu,           \* DuckDBDriver.mu: 0 when free, else the connection holding it
    Initialized,  \* DuckDBDriver.Initialized
    homePath,     \* the environment variable GF_PATHS_DATA
    todo,         \* the settings of the Connect calls still to be made
    connsLeft,    \* how many more connections the pools may open
    calls,        \* the Connect calls made: their settings and what they returned
    connectors,   \* the connectors made by duckdb.NewConnector, one per call
    conns,        \* the connections the pools opened: each runs the init callback
    execLog,      \* history: every ExecContext of a boot statement, in order
    macroRes,     \* the last macro invocation and what it returned
    convRes       \* the last column value or type name handled by the converters

vars == <<mu, Initialized, homePath, todo, connsLeft, calls, connectors, conns,
          execLog, macroRes, convRes>>

driverVars == <<mu, Initialized, homePath, todo, connsLeft, calls, connectors,
                conns, execLog>>

(***************************************************************************)
(* Bounds                                                                  *)
(***************************************************************************)
\* Connect calls in a run of the driver
NCalls == 2
\* connections opened over all pools in a run of the driver
MaxConns == 3
\* length of the targets enumerated for the single-call specification
MaxLen == 4
\* arguments of a macro invocation
MaxArgs == 3
\* boot statements the engine fails in a run
MaxFailures == 1

(***************************************************************************)
(* strings                                                                 *)
(***************************************************************************)
Empty == << >>

SQ == "'"

DQ == "\""

\* unicode.IsSpace, on the characters the model uses
IsSpace(ch) == ch \in {" ", "\t", "\n"}

Drop(s, n) == SubSeq(s, n + 1, Len(s))

HasPrefix(s, p) == Len(s) >= Len(p) /\ SubSeq(s, 1, Len(p)) = p

HasSuffix(s, p) == Len(s) >= Len(p) /\ SubSeq(s, Len(s) - Len(p) + 1, Len(s)) = p

RECURSIVE TrimLeft(_)
TrimLeft(s) == IF s # Empty /\ IsSpace(Head(s)) THEN TrimLeft(Tail(s)) ELSE s

RECURSIVE TrimRight(_)
TrimRight(s) ==
    IF s # Empty /\ IsSpace(s[Len(s)]) THEN TrimRight(SubSeq(s, 1, Len(s) - 1)) ELSE s

TrimSpace(s) == TrimRight(TrimLeft(s))

\* strings.ReplaceAll for a non-empty old: left to right, non-overlapping
RECURSIVE ReplaceAll(_, _, _)
ReplaceAll(s, old, new) ==
    IF s = Empty THEN Empty
    ELSE IF HasPrefix(s, old) THEN new \o ReplaceAll(Drop(s, Len(old)), old, new)
    ELSE <<Head(s)>> \o ReplaceAll(Tail(s), old, new)

MdPrefix == <<"m", "d", ":">>

(***************************************************************************)
(* Connect: validation and routing (lines 53-83)                           *)
(***************************************************************************)
ConfigError(msg) == [type |-> "ConfigError", Msg |-> msg]

NoError == [type |-> "nil", Msg |-> Empty]

\* IsQuoted with the test for double quotes left out
IsQuotedSingleOnly(trimmedPath) ==
    HasPrefix(trimmedPath, <<SQ>>) /\ HasSuffix(trimmedPath, <<SQ>>)

\* lines 65-66
IsQuoted(trimmedPath) ==
    \/ HasPrefix(trimmedPath, <<SQ>>) /\ HasSuffix(trimmedPath, <<SQ>>)
    \/ HasPrefix(trimmedPath, <<DQ>>) /\ HasSuffix(trimmedPath, <<DQ>>)

\* ResolvePath with the test of the token left out
ResolvePathNoTokenCheck(config) ==
    LET trimmedPath == TrimSpace(config.Path)
    IN  IF IsQuoted(trimmedPath)
        THEN [err |-> ConfigError(<<"Invalid path: ">> \o trimmedPath
                                  \o <<" -> example input: md:sample_data">>),
              path |-> Empty, cleanPath |-> trimmedPath]
        ELSE IF HasPrefix(trimmedPath, MdPrefix)
        THEN [err |-> NoError, path |-> Empty, cleanPath |-> trimmedPath]
        ELSE [err |-> NoError, path |-> trimmedPath, cleanPath |-> trimmedPath]

\* lines 59-83: the error, or the path the connector is opened with
ResolvePath(config) ==
    LET trimmedPath == TrimSpace(config.Path)
        cleanPath == trimmedPath
    IN  IF IsQuoted(trimmedPath)
        THEN [err |-> ConfigError(<<"Invalid path: ">> \o trimmedPath
                                  \o <<" -> example input: md:sample_data">>),
              path |-> Empty, cleanPath |-> cleanPath]
        ELSE IF HasPrefix(cleanPath, MdPrefix)
        THEN IF config.Token = Empty
             THEN [err |-> ConfigError(<<"MotherDuck Token is missing for motherduck connection">>),
                   path |-> Empty, cleanPath |-> cleanPath]
             ELSE [err |-> NoError, path |-> Empty, cleanPath |-> cleanPath]
        ELSE IF trimmedPath # Empty
        THEN [err |-> NoError, path |-> trimmedPath, cleanPath |-> cleanPath]
        ELSE [err |-> NoError, path |-> Empty, cleanPath |-> cleanPath]

(***************************************************************************)
(* The boot statements (lines 88-119)                                      *)
(***************************************************************************)
Stmt(kind, text) == [kind |-> kind, text |-> text]

\* filepath.Join of a non-empty directory and a relative path
Join(dir, rel) == dir \o <<"/">> \o rel

\* lines 93-99
DirQueries(home) ==
    IF home # Empty
    THEN << Stmt("dir", <<"SET home_directory='">> \o home \o <<"';">>),
            Stmt("dir", <<"SET extension_directory='">>
                        \o Join(home, <<".duckdb/extensions">>) \o <<"';">>),
            Stmt("dir", <<"SET secret_directory='">>
                        \o Join(home, <<".duckdb/stored_secrets">>) \o <<"';">>) >>
    ELSE << >>

\* lines 104 and 113
ExtensionQueries ==
    << Stmt("install", <<"INSTALL 'motherduck';">>),
       Stmt("load", <<"LOAD 'motherduck';">>) >>

\* lines 105 and 114
TokenQuery(token) == Stmt("token", <<"SET motherduck_token='">> \o token \o <<"';">>)

\* QuotedDB with the quotes of the target left as they are
QuotedDBRaw(cleanPath) == <<SQ>> \o cleanPath \o <<SQ>>

\* line 108
QuotedDB(cleanPath) == <<SQ>> \o ReplaceAll(cleanPath, <<SQ>>, <<SQ, SQ>>) \o <<SQ>>

\* line 109
AttachQuery(cleanPath) ==
    Stmt("attach", <<"ATTACH IF NOT EXISTS ">> \o QuotedDB(cleanPath)
                   \o <<" (TYPE motherduck);">>)

\* lines 101-115
MotherDuckQueries(cleanPath, config) ==
    IF HasPrefix(cleanPath, MdPrefix)
    THEN ExtensionQueries \o <<TokenQuery(config.Token)>> \o <<AttachQuery(cleanPath)>>
    ELSE IF config.Token # Empty
    THEN ExtensionQueries \o <<TokenQuery(config.Token)>>
    ELSE << >>

\* lines 116-119
InitSqlQueries(config) ==
    IF TrimSpace(config.InitSql) # Empty
    THEN << Stmt("init", config.InitSql) >>
    ELSE << >>

\* BootQueries with the extension and the ATTACH ahead of the directory settings
BootQueriesAttachFirst(home, cleanPath, config) ==
    MotherDuckQueries(cleanPath, config) \o DirQueries(home) \o InitSqlQueries(config)

\* lines 88-119: bootQueries as built by a callback that finds Initialized false
BootQueries(home, cleanPath, config) ==
    DirQueries(home) \o MotherDuckQueries(cleanPath, config) \o InitSqlQueries(config)

(***************************************************************************)
(* The driver: Connect, and the init callback of every connection a pool   *)
(* opens (lines 53-141)                                                    *)
(***************************************************************************)
Config(path, token, initSql) == [Path |-> path, Token |-> token, InitSql |-> initSql]

\* the settings the callers of the driver specification connect with: a remote
\* catalog with its token and init SQL, and the in-memory engine
SmallConfigs ==
    { Config(<<"m", "d", ":", "x">>, <<"t">>, <<"S">>),
      Config(Empty, Empty, Empty) }

HomePaths == { Empty, <<"/", "g">> }

OpenError == [type |-> "OpenError", Msg |-> <<"could not open database">>]

ExecError(stmt) == [type |-> "ExecError", Msg |-> stmt.text]

\* what ExecContext answers under a context that is done
ContextCanceled == [type |-> "Canceled", Msg |-> <<"context canceled">>]

\* context.Background(): never cancelled
Background == [done |-> FALSE]

\* line 122: the context every boot statement is executed under
ExecContextOf(c) == Background

\* SkipBoot with the flag never looked at
SkipBootNever(initialized) == FALSE

\* line 89: whether the callback leaves the boot sequence out
SkipBoot(initialized) == initialized

\* SetsInitialized with the flag set once the last statement was tried
SetsInitializedAtEnd(ok, i, n) == i = n

\* lines 120-128: whether the flag is set after statement i of n ended ok or not
SetsInitialized(ok, i, n) == ok /\ i = n

NewConn(k) ==
    [connector |-> k, pc |-> "lock", bootQueries |-> << >>, i |-> 0,
     err |-> NoError, ctxDone |-> FALSE]

Init ==
    /\ mu = 0
    /\ Initialized = FALSE
    /\ homePath = Empty
    /\ todo \in [1..NCalls -> SmallConfigs]
    /\ connsLeft = MaxConns
    /\ calls = << >>
    /\ connectors = << >>
    /\ conns = << >>
    /\ execLog = << >>
    /\ macroRes = [name |-> "none"]
    /\ convRes = [op |-> "none"]

\* lines 53-141, without the callback: one Connect call, from its settings to
\* what it returns.  openErr is duckdb.NewConnector failing to open the
\* database file; the in-memory engine always opens.
Connect(openErr) ==
    /\ todo # << >>
    /\ openErr => ResolvePath(Head(todo)).path # Empty
    /\ LET config == Head(todo)
           r == ResolvePath(config)
       IN  IF r.err # NoError
           THEN /\ calls' = Append(calls, [config |-> config, err |-> r.err, db |-> 0])
                /\ UNCHANGED connectors
           ELSE IF openErr
           THEN /\ calls' = Append(calls, [config |-> config, err |-> OpenError, db |-> 0])
                /\ UNCHANGED connectors
           ELSE /\ connectors' = Append(connectors,
                        [path |-> r.path, cleanPath |-> r.cleanPath,
                         config |-> config, applied |-> << >>])
                /\ calls' = Append(calls, [config |-> config, err |-> NoError,
                                           db |-> Len(connectors) + 1])
    /\ todo' = Tail(todo)
    /\ UNCHANGED <<mu, Initialized, homePath, connsLeft, conns, execLog, macroRes, convRes>>

\* the pool of connector k opens a connection: the callback is called and
\* waits at d.mu.Lock() (line 86)
OpenConn(k) ==
    /\ k \in 1..Len(connectors)
    /\ connsLeft > 0
    /\ connsLeft' = connsLeft - 1
    /\ conns' = Append(conns, NewConn(k))
    /\ UNCHANGED <<mu, Initialized, homePath, todo, calls, connectors, execLog,
                   macroRes, convRes>>

\* lines 86-119: the lock is taken, the flag read and bootQueries built; with
\* nothing to execute the loop of line 120 is over at once (line 128)
Lock(j) ==
    /\ j \in 1..Len(conns)
    /\ conns[j].pc = "lock"
    /\ mu = 0
    /\ mu' = j
    /\ LET k == connectors[conns[j].connector]
           bq == BootQueries(homePath, k.cleanPath, k.config)
       IN  IF SkipBoot(Initialized)
           THEN /\ conns' = [conns EXCEPT ![j].pc = "ret"]
                /\ UNCHANGED Initialized
           ELSE IF bq = << >>
           THEN /\ conns' = [conns EXCEPT ![j].pc = "ret"]
                /\ Initialized' = TRUE
           ELSE /\ conns' = [conns EXCEPT ![j].pc = "boot", ![j].bootQueries = bq,
                                          ![j].i = 1]
                /\ UNCHANGED Initialized
    /\ UNCHANGED <<homePath, todo, connsLeft, calls, connectors, execLog, macroRes, convRes>>

NumFailures == Cardinality({p \in DOMAIN execLog : ~execLog[p].ok})

\* lines 120-128: one ExecContext of the loop; engineOk is the engine's answer
\* to the statement.  A failure returns it (line 124); the last statement
\* ending well sets the flag (line 128).
Exec(j, engineOk) ==
    /\ j \in 1..Len(conns)
    /\ conns[j].pc = "boot"
    /\ engineOk \/ NumFailures < MaxFailures
    /\ LET c == conns[j]
           stmt == c.bootQueries[c.i]
           n == Len(c.bootQueries)
           ok == engineOk /\ ~ExecContextOf(c).done
       IN  /\ execLog' = Append(execLog, [conn |-> j, idx |-> c.i, stmt |-> stmt, ok |-> ok])
           /\ connectors' = IF ok
                            THEN [connectors EXCEPT ![c.connector].applied = Append(@, stmt)]
                            ELSE connectors
           /\ Initialized' = (Initialized \/ SetsInitialized(ok, c.i, n))
           /\ conns' = IF ~ok
                       THEN [conns EXCEPT ![j].pc = "ret",
                                          ![j].err = IF ExecContextOf(c).done
                                                     THEN ContextCanceled
                                                     ELSE ExecError(stmt)]
                       ELSE IF c.i = n
                       THEN [conns EXCEPT ![j].pc = "ret"]
                       ELSE [conns EXCEPT ![j].i = c.i + 1]
    /\ UNCHANGED <<mu, homePath, todo, connsLeft, calls, macroRes, convRes>>

\* Return with the Unlock at the end of the callback instead of deferred: a
\* return with an error leaves the lock held
ReturnUnlockingAtEnd(j) ==
    /\ j \in 1..Len(conns)
    /\ conns[j].pc = "ret"
    /\ mu' = IF conns[j].err = NoError THEN 0 ELSE mu
    /\ conns' = [conns EXCEPT ![j].pc = "done", ![j].ctxDone = FALSE]
    /\ UNCHANGED <<Initialized, homePath, todo, connsLeft, calls, connectors, execLog,
                   macroRes, convRes>>

\* lines 87 and 124/131: the callback returns and the deferred Unlock runs
Return(j) ==
    /\ j \in 1..Len(conns)
    /\ conns[j].pc = "ret"
    /\ mu' = 0
    /\ conns' = [conns EXCEPT ![j].pc = "done", ![j].ctxDone = FALSE]
    /\ UNCHANGED <<Initialized, homePath, todo, connsLeft, calls, connectors, execLog,
                   macroRes, convRes>>

\* the request a connection is being opened for times out or is cancelled
Cancel(j) ==
    /\ j \in 1..Len(conns)
    /\ conns[j].pc = "boot"
    /\ ~conns[j].ctxDone
    /\ conns' = [conns EXCEPT ![j].ctxDone = TRUE]
    /\ UNCHANGED <<mu, Initialized, homePath, todo, connsLeft, calls, connectors, execLog,
                   macroRes, convRes>>

Next ==
    \/ \E openErr \in BOOLEAN : Connect(openErr)
    \/ \E k \in 1..NCalls : OpenConn(k)
    \/ \E j \in 1..MaxConns : Lock(j)
    \/ \E j \in 1..MaxConns, engineOk \in BOOLEAN : Exec(j, engineOk)
    \/ \E j \in 1..MaxConns : Return(j)
    \/ \E j \in 1..MaxConns : Cancel(j)

Spec == Init /\ [][Next]_vars

\* the driver with the scheduling the code relies on: a callback that waits
\* at d.mu.Lock() gets the lock if it is free again and again (sync.Mutex
\* hands the lock to a waiter that has waited long), the engine answers
\* every ExecContext, and a callback that has reached its return returns
Fairness ==
    \A j \in 1..MaxConns :
        /\ SF_vars(Lock(j))
        /\ WF_vars(\E engineOk \in BOOLEAN : Exec(j, engineOk))
        /\ WF_vars(Return(j))

SpecFair == Init /\ [][Next]_vars /\ Fairness

(***************************************************************************)
(* One Connect call and the first connection of its pool, over every       *)
(* target of up to MaxLen characters                                       *)
(***************************************************************************)
Alphabet == {"m", "d", ":", SQ, DQ, " "}

RECURSIVE Strings(_)
Strings(n) ==
    IF n = 0 THEN {Empty}
    ELSE LET S == Strings(n - 1) IN S \cup {Append(s, ch) : s \in S, ch \in Alphabet}

\* the targets of the specification's examples, and a local file
SampleTargets ==
    { <<"m", "d", ":", "w", "e", "i", "r", "d", SQ, "n", "a", "m", "e">>,
      <<"m", "d", ":", "s", "a", "m", "p", "l", "e">>,
      <<SQ, "m", "d", ":", "s", "a", "m", "p", "l", "e", SQ>>,
      <<DQ, "m", "d", ":", "s", "a", "m", "p", "l", "e", DQ>>,
      <<" ", "/", "f", ".", "d", "b", " ">> }

Tokens == { Empty, <<"t">> }

InitSqls == { Empty, <<" ">>, <<"S", " ">> }

WideConfigs ==
    {Config(p, tok, Empty) : p \in Strings(MaxLen), tok \in Tokens}
    \cup {Config(p, tok, sql) : p \in SampleTargets, tok \in Tokens, sql \in InitSqls}

InitConnect ==
    /\ mu = 0
    /\ Initialized = FALSE
    /\ homePath \in HomePaths
    /\ todo \in {<<config>> : config \in WideConfigs}
    /\ connsLeft = 1
    /\ calls = << >>
    /\ connectors = << >>
    /\ conns = << >>
    /\ execLog = << >>
    /\ macroRes = [name |-> "none"]
    /\ convRes = [op |-> "none"]

SpecConnect == InitConnect /\ [][Next]_vars

(***************************************************************************)
(* The macros timeFrom and timeTo (lines 160-179)                          *)
(***************************************************************************)
DigitChars == <<"0", "1", "2", "3", "4", "5", "6", "7", "8", "9">>

DigitChar(d) == DigitChars[d + 1]

\* strconv.Itoa / the verb %d, for a number >= 0
RECURSIVE Itoa(_)
Itoa(n) == IF n < 10 THEN <<DigitChar(n)>> ELSE Append(Itoa(n \div 10), DigitChar(n % 10))

Pad2(n) == <<DigitChar(n \div 10), DigitChar(n % 10)>>

\* a time.Time: an instant, in seconds since 1970, and the offset of its zone
Time(unix, offset) == [unix |-> unix, offset |-> offset]

\* Time.UTC(): the same instant in the zone UTC
UTC(t) == [t EXCEPT !.offset = 0]

SecondsPerDay == 24 * 60 * 60

DaysOfJanuary == 31

\* Time.Format(time.RFC3339), for the instants of January and February 1970
FormatRFC3339(t) ==
    LET local == t.unix + t.offset
        day == local \div SecondsPerDay
        sec == local % SecondsPerDay
        date == IF day < DaysOfJanuary
                THEN <<"1", "9", "7", "0", "-", "0", "1", "-">> \o Pad2(day + 1)
                ELSE <<"1", "9", "7", "0", "-", "0", "2", "-">> \o Pad2(day - DaysOfJanuary + 1)
        clock == Pad2(sec \div 3600) \o <<":">> \o Pad2((sec % 3600) \div 60)
                 \o <<":">> \o Pad2(sec % 60)
        abs == IF t.offset < 0 THEN -t.offset ELSE t.offset
        zone == IF t.offset = 0 THEN <<"Z">>
                ELSE <<IF t.offset < 0 THEN "-" ELSE "+">>
                     \o Pad2(abs \div 3600) \o <<":">> \o Pad2((abs % 3600) \div 60)
    IN  date \o <<"T">> \o clock \o zone

\* line 171: the error fmt.Errorf makes, wrapping sqlutil.ErrorBadArgumentCount
BadArgumentCount(n) ==
    [type |-> "ErrorBadArgumentCount",
     Msg |-> <<": expected 0 arguments, received ">> \o Itoa(n)]

\* macroTimeFrom taking any number of blank arguments for none
macroTimeFromAnyBlank(query, args) ==
    IF \A i \in DOMAIN args : TrimSpace(args[i]) = Empty
    THEN [out |-> <<SQ>> \o FormatRFC3339(UTC(query.TimeRange.From)) \o <<SQ>>,
          err |-> NoError]
    ELSE [out |-> Empty, err |-> BadArgumentCount(Len(args))]

\* lines 167-172
macroTimeFrom(query, args) ==
    IF Len(args) = 0 \/ (Len(args) = 1 /\ TrimSpace(args[1]) = Empty)
    THEN [out |-> <<SQ>> \o FormatRFC3339(UTC(query.TimeRange.From)) \o <<SQ>>,
          err |-> NoError]
    ELSE [out |-> Empty, err |-> BadArgumentCount(Len(args))]

\* lines 174-179
macroTimeTo(query, args) ==
    IF Len(args) = 0 \/ (Len(args) = 1 /\ TrimSpace(args[1]) = Empty)
    THEN [out |-> <<SQ>> \o FormatRFC3339(UTC(query.TimeRange.To)) \o <<SQ>>,
          err |-> NoError]
    ELSE [out |-> Empty, err |-> BadArgumentCount(Len(args))]

\* the arguments a macro call is parsed into
ArgStrings == { Empty, <<" ">>, <<"a">>, <<" ", "a">>, <<"\t", " ">> }

RECURSIVE ArgLists(_)
ArgLists(n) ==
    IF n = 0 THEN {<< >>}
    ELSE LET S == ArgLists(n - 1) IN S \cup {Append(a, x) : a \in S, x \in ArgStrings}

\* instants of January and February 1970, in three zones
Times ==
    { Time(unix, offset) :
        unix \in {86400, 2678399, 2768461},
        offset \in {0, 3600, -18000} }

Queries == { [TimeRange |-> [From |-> f, To |-> t]] : f \in Times, t \in Times }

\* a macro call found in a query, not yet expanded
MacroCall(name, query, args) ==
    [name |-> name, query |-> query, args |-> args, expanded |-> FALSE,
     res |-> [out |-> Empty, err |-> NoError]]

\* line 162: the query layer calls the macro registered as timeFrom
InvokeTimeFrom ==
    /\ macroRes.name = "timeFrom"
    /\ ~macroRes.expanded
    /\ macroRes' = [macroRes EXCEPT !.expanded = TRUE,
                                    !.res = macroTimeFrom(macroRes.query, macroRes.args)]
    /\ UNCHANGED <<driverVars, convRes>>

\* line 163: the query layer calls the macro registered as timeTo
InvokeTimeTo ==
    /\ macroRes.name = "timeTo"
    /\ ~macroRes.expanded
    /\ macroRes' = [macroRes EXCEPT !.expanded = TRUE,
                                    !.res = macroTimeTo(macroRes.query, macroRes.args)]
    /\ UNCHANGED <<driverVars, convRes>>

\* a driver on which nothing is called
IdleDriver ==
    /\ mu = 0
    /\ Initialized = FALSE
    /\ homePath = Empty
    /\ todo = << >>
    /\ connsLeft = 0
    /\ calls = << >>
    /\ connectors = << >>
    /\ conns = << >>
    /\ execLog = << >>

InitMacro ==
    /\ IdleDriver
    /\ macroRes \in {MacroCall(name, query, args) :
                        name \in {"timeFrom", "timeTo"}, query \in Queries,
                        args \in ArgLists(MaxArgs)}
    /\ convRes = [op |-> "none"]

NextMacro == InvokeTimeFrom \/ InvokeTimeTo

SpecMacro == InitMacro /\ [][NextMacro]_vars

(***************************************************************************)
(* The HUGEINT converter (lines 218-274)                                   *)
(***************************************************************************)
\* a big.Int is its sign and its magnitude, a sequence of words, the least
\* significant first and the most significant not zero; the model's words
\* have 16 bits
WordBase == 2 ^ 16

HugeIntWords == 128 \div 16

BigInt(neg, abs) == [neg |-> neg, abs |-> abs]

\* nat.norm: the words without the zero words at the top
RECURSIVE Norm(_)
Norm(abs) ==
    IF abs # << >> /\ abs[Len(abs)] = 0 THEN Norm(SubSeq(abs, 1, Len(abs) - 1)) ELSE abs

\* the conversion to base 10 takes the digits off the low end four at a
\* time, dividing by 10^4
DigitsPerStep == 4

StepBase == 10 ^ DigitsPerStep

\* the words i..1 of abs, with the remainder rem carried in from above,
\* divided by StepBase: the quotient's words and the remainder
RECURSIVE DivStep(_, _, _)
DivStep(abs, i, rem) ==
    IF i = 0 THEN [q |-> << >>, r |-> rem]
    ELSE LET cur == rem * WordBase + abs[i]
             below == DivStep(abs, i - 1, cur % StepBase)
         IN  [q |-> Append(below.q, cur \div StepBase), r |-> below.r]

\* a number below StepBase in DigitsPerStep digits, with zeros in front
PadStep(n) ==
    [i \in 1..DigitsPerStep |-> DigitChar((n \div (10 ^ (DigitsPerStep - i))) % 10)]

\* the decimal digits of a magnitude that is not zero
RECURSIVE DecimalDigits(_)
DecimalDigits(abs) ==
    IF abs = << >> THEN << >>
    ELSE LET d == DivStep(abs, Len(abs), 0)
             q == Norm(d.q)
         IN  IF q = << >> THEN Itoa(d.r) ELSE DecimalDigits(q) \o PadStep(d.r)

\* big.Int.String(): the value in base 10
BigIntString(x) ==
    IF x.abs = << >> THEN <<"0">>
    ELSE (IF x.neg THEN <<"-">> ELSE << >>) \o DecimalDigits(x.abs)

\* what the engine's driver hands to Scan: SQL NULL, a *big.Int, a *big.Int
\* that is nil, or a value of another type
NullValue == [kind |-> "nil", v |-> BigInt(FALSE, << >>)]

NilPointer == [kind |-> "nilptr", v |-> BigInt(FALSE, << >>)]

OtherValue == [kind |-> "int64", v |-> BigInt(FALSE, <<1>>)]

BigIntValue(x) == [kind |-> "bigint", v |-> x]

\* a *string: nil, or a pointer to a string
NilString == [isNil |-> TRUE, str |-> Empty]

StringPtr(str) == [isNil |-> FALSE, str |-> str]

\* lines 224-240: the NullBigInt after Scan, and Scan's error
Scan(value) ==
    IF value.kind = "nil"
    THEN [n |-> [BigInt |-> NilPointer, Valid |-> FALSE], err |-> NoError]
    ELSE IF value.kind \notin {"bigint", "nilptr"}
    THEN [n |-> [BigInt |-> NilPointer, Valid |-> FALSE],
          err |-> [type |-> "error", Msg |-> <<"expected value to be big.Int">>]]
    ELSE [n |-> [BigInt |-> value, Valid |-> TRUE], err |-> NoError]

\* HugeIntConverterFunc going through an int64: the low 64 bits only
HugeIntConverterViaInt64(n) ==
    IF ~n.Valid \/ n.BigInt = NilPointer
    THEN NilString
    ELSE LET x == n.BigInt.v
             low == SubSeq(x.abs, 1, IF Len(x.abs) < 4 THEN Len(x.abs) ELSE 4)
         IN  StringPtr(BigIntString(BigInt(x.neg, Norm(low))))

\* lines 264-271
HugeIntConverterFunc(n) ==
    IF ~n.Valid \/ n.BigInt = NilPointer
    THEN NilString
    ELSE StringPtr(BigIntString(n.BigInt.v))

WordSamples == {0, 1, WordBase - 1}

\* magnitudes below 2^128, among them 2^63, 2^64 and 2^128 - 1
Magnitudes == {Norm(f) : f \in [1..HugeIntWords -> WordSamples]}

DriverValues ==
    {NullValue, NilPointer, OtherValue}
    \cup {BigIntValue(BigInt(neg, abs)) : neg \in BOOLEAN, abs \in Magnitudes \ {<< >>}}
    \cup {BigIntValue(BigInt(FALSE, << >>))}

\* a HUGEINT column value read from the engine, not yet converted
Column(value) ==
    [op |-> "HUGEINT", value |-> value, converted |-> FALSE, err |-> NoError,
     out |-> NilString]

\* a HUGEINT column value is scanned into a NullBigInt and, unless Scan
\* failed, converted (lines 255-274)
ConvertHugeInt ==
    /\ convRes.op = "HUGEINT"
    /\ ~convRes.converted
    /\ LET s == Scan(convRes.value)
       IN  convRes' = [convRes EXCEPT !.converted = TRUE,
                                      !.err = s.err,
                                      !.out = IF s.err = NoError
                                              THEN HugeIntConverterFunc(s.n)
                                              ELSE NilString]
    /\ UNCHANGED <<driverVars, macroRes>>

InitConv ==
    /\ IdleDriver
    /\ macroRes = [name |-> "none"]
    /\ convRes \in {Column(value) : value \in DriverValues}

NextConv == ConvertHugeInt

SpecConv == InitConv /\ [][NextConv]_vars

(***************************************************************************)
(* The string converters of the narrow integer types (lines 334-433)       *)
(***************************************************************************)
\* a native type name is a sequence of fragments, none of which is the
\* beginning of another, so that two sequences are equal exactly when the
\* names they spell are
INT2 == <<"INT", "2">>

INT8 == <<"INT", "8">>

TINYINT == <<"TINY", "INT">>

INT16 == <<"INT", "1", "6">>

SMALLINT == <<"SMALL", "INT">>

NarrowTypeNames == {INT2, INT8, TINYINT, INT16, SMALLINT}

\* the base and the bitSize each rule hands to strconv.ParseInt (lines 345,
\* 365, 385, 405, 425)
IntBase(typeName) == 10

IntBitSize(typeName) ==
    CASE typeName = INT2 -> 16
      [] typeName = INT8 -> 16
      [] typeName = TINYINT -> 16
      [] typeName = INT16 -> 16
      [] typeName = SMALLINT -> 16

ErrSyntax == [type |-> "error", Msg |-> <<"strconv.ParseInt: invalid syntax">>]

ErrRange == [type |-> "error", Msg |-> <<"strconv.ParseInt: value out of range">>]

\* the digit a character stands for in strconv.ParseUint: a letter stands
\* for ten and more, any other character for none
DigitOf(ch) ==
    IF \E d \in 0..9 : DigitChars[d + 1] = ch
    THEN CHOOSE d \in 0..9 : DigitChars[d + 1] = ch
    ELSE IF ch = "a" THEN 10
    ELSE -1

\* the loop of strconv.ParseUint from character i on, n being the number
\* read so far: it returns at the first character that is no digit of the
\* base and at the first digit that takes the number above maxVal
RECURSIVE ParseUintFrom(_, _, _, _, _)
ParseUintFrom(s, i, n, base, maxVal) ==
    IF i > Len(s) THEN [un |-> n, err |-> NoError]
    ELSE LET d == DigitOf(s[i])
         IN  IF d < 0 \/ d >= base THEN [un |-> 0, err |-> ErrSyntax]
             ELSE IF n * base + d > maxVal THEN [un |-> maxVal, err |-> ErrRange]
             ELSE ParseUintFrom(s, i + 1, n * base + d, base, maxVal)

\* strconv.ParseUint(s, base, bitSize)
ParseUint(s, base, bitSize) ==
    IF s = Empty THEN [un |-> 0, err |-> ErrSyntax]
    ELSE ParseUintFrom(s, 1, 0, base, 2 ^ bitSize - 1)

\* strconv.ParseInt(s, base, bitSize): an optional sign, then ParseUint, then
\* the test against the cutoff 1 << (bitSize - 1); with a range error it
\* returns the nearest value of the type
ParseInt(s, base, bitSize) ==
    IF s = Empty THEN [i |-> 0, err |-> ErrSyntax]
    ELSE LET neg == Head(s) = "-"
             rest == IF Head(s) \in {"+", "-"} THEN Tail(s) ELSE s
             u == ParseUint(rest, base, bitSize)
             cutoff == 2 ^ (bitSize - 1)
         IN  IF u.err # NoError /\ u.err # ErrRange THEN [i |-> 0, err |-> u.err]
             ELSE IF ~neg /\ u.un >= cutoff THEN [i |-> cutoff - 1, err |-> ErrRange]
             ELSE IF neg /\ u.un > cutoff THEN [i |-> -cutoff, err |-> ErrRange]
             ELSE [i |-> IF neg THEN -u.un ELSE u.un, err |-> NoError]

\* the conversion int16(i64): the low 16 bits, read with a sign
ToInt16(i64) == ((i64 + 2 ^ 15) % 2 ^ 16) - 2 ^ 15

\* a *int16, and the nil a ReplaceFunc returns
NilInt == [isNil |-> TRUE, v |-> 0]

Int16Ptr(v) == [isNil |-> FALSE, v |-> v]

\* a ReplaceFunc that keeps the value ParseInt returns with a range error
ReplaceFuncIgnoringRange(typeName, in) ==
    IF in.isNil THEN [out |-> NilInt, err |-> NoError]
    ELSE LET r == ParseInt(in.str, IntBase(typeName), IntBitSize(typeName))
         IN  IF r.err # NoError /\ r.err # ErrRange THEN [out |-> NilInt, err |-> r.err]
             ELSE [out |-> Int16Ptr(ToInt16(r.i)), err |-> NoError]

\* the ReplaceFunc of the rule of a narrow type (lines 341-351, and the same
\* at 361-371, 381-391, 401-411, 421-431)
ReplaceFunc(typeName, in) ==
    IF in.isNil THEN [out |-> NilInt, err |-> NoError]
    ELSE LET r == ParseInt(in.str, IntBase(typeName), IntBitSize(typeName))
         IN  IF r.err # NoError THEN [out |-> NilInt, err |-> r.err]
             ELSE [out |-> Int16Ptr(ToInt16(r.i)), err |-> NoError]

\* the ConversionFunc of every string converter: the text as it is
ConversionFunc(in) == in

NumAlphabet == {"-", "+", "0", "3", "9", "a"}

RECURSIVE NumStrings(_)
NumStrings(n) ==
    IF n = 0 THEN {Empty}
    ELSE LET S == NumStrings(n - 1) IN S \cup {Append(t, ch) : t \in S, ch \in NumAlphabet}

\* the texts of the specification's examples and those around the ends of
\* the range of an int16
SampleTexts ==
    { <<"3", "2", "0", "0", "0">>, <<"a", "b", "c">>,
      <<"3", "2", "7", "6", "7">>, <<"3", "2", "7", "6", "8">>,
      <<"-", "3", "2", "7", "6", "8">>, <<"-", "3", "2", "7", "6", "9">>,
      <<"+", "3", "2", "7", "6", "7">>, <<"0", "0", "3", "2", "7", "6", "7">>,
      <<"6", "5", "5", "3", "6">>, <<"6", "5", "5", "3", "5">>,
      <<"9", "9", "9", "9", "9", "9", "a">>, <<"1", "2", ".", "5">>,
      <<" ", "7">>, <<"1", "_", "0">> }

\* what the engine's driver hands to a string converter: nil or a text
TextValues == {NilString} \cup {StringPtr(t) : t \in NumStrings(MaxLen) \cup SampleTexts}

\* a column value of a narrow type read from the engine, not yet converted
TextColumn(typeName, in) ==
    [op |-> typeName, value |-> in, converted |-> FALSE, err |-> NoError,
     out |-> NilInt]

\* the value goes through the ConversionFunc and then through the ReplaceFunc
\* of the rule of its type
ConvertNarrow ==
    /\ convRes.op \in NarrowTypeNames
    /\ ~convRes.converted
    /\ LET r == ReplaceFunc(convRes.op, ConversionFunc(convRes.value))
       IN  convRes' = [convRes EXCEPT !.converted = TRUE, !.err = r.err, !.out = r.out]
    /\ UNCHANGED <<driverVars, macroRes>>

InitNarrow ==
    /\ IdleDriver
    /\ macroRes = [name |-> "none"]
    /\ convRes \in {TextColumn(typeName, in) : typeName \in NarrowTypeNames, in \in TextValues}

NextNarrow == ConvertNarrow

SpecNarrow == InitNarrow /\ [][NextNarrow]_vars

(***************************************************************************)
(* The converter list (lines 249-458) and the choice of a rule             *)
(***************************************************************************)
HUGEINT == <<"HUGE", "INT">>

FLOAT8 == <<"FLOAT", "8">>

FLOAT32 == <<"FLOAT", "3", "2">>

FLOAT == <<"FLOAT">>

\* a compiled pattern of the shape literal.* , and the nil pattern
Regex(literal) == [isNil |-> FALSE, literal |-> literal]

NoRegex == [isNil |-> TRUE, literal |-> Empty]

\* regexp.MatchString for such a pattern: it is not anchored, so the literal
\* may begin anywhere in s
MatchString(re, s) == \E i \in 0..Len(s) : HasPrefix(Drop(s, i), re.literal)

\* a sqlutil.Converter: its name and what it is chosen by; a rule that
\* gives no InputTypeName has the empty one
Converter(name, typeName, regex, fieldType) ==
    [Name |-> name, InputTypeName |-> typeName, InputTypeRegex |-> regex,
     FieldType |-> fieldType]

\* lines 255-274
BigIntConverters ==
    << Converter("handle HUGEINT (returns *big.Int)", HUGEINT, NoRegex, "NullableString") >>

\* lines 276-435
StrConverters ==
    << Converter("handle FLOAT8", FLOAT8, NoRegex, "NullableFloat64"),
       Converter("handle FLOAT32", FLOAT32, NoRegex, "NullableFloat64"),
       Converter("handle FLOAT", FLOAT, NoRegex, "NullableFloat64"),
       Converter("handle INT2", INT2, NoRegex, "NullableInt16"),
       Converter("handle INT8", INT8, NoRegex, "NullableInt16"),
       Converter("handle TINYINT", TINYINT, NoRegex, "NullableInt16"),
       Converter("handle INT16", INT16, NoRegex, "NullableInt16"),
       Converter("handle SMALLINT", SMALLINT, NoRegex, "NullableInt16") >>

\* the decimal rule with a pattern that has lost its literal
DecimalConvertersAnyName ==
    << Converter("NULLABLE decimal converter", Empty, Regex(Empty), "NullableFloat64") >>

\* lines 436-455
DecimalConverters ==
    << Converter("NULLABLE decimal converter", Empty, Regex(<<"DECIMAL">>),
                 "NullableFloat64") >>

\* lines 456-457: the order of the list
GetConverterList == (BigIntConverters \o DecimalConverters) \o StrConverters

\* a rule applies to a column by its pattern or by its type name
ConverterMatches(v, typeName) ==
    \/ ~v.InputTypeRegex.isNil /\ MatchString(v.InputTypeRegex, typeName)
    \/ v.InputTypeName # Empty /\ v.InputTypeName = typeName

\* the rules are tried in the order of the list and the first that applies
\* is taken; 0 when none applies
RECURSIVE FirstMatch(_, _, _)
FirstMatch(list, i, typeName) ==
    IF i > Len(list) THEN 0
    ELSE IF ConverterMatches(list[i], typeName) THEN i
    ELSE FirstMatch(list, i + 1, typeName)

Fragments == {"HUGE", "INT", "FLOAT", "TINY", "SMALL", "DECIMAL", "2", "8", "(18,3)"}

RECURSIVE Names(_)
Names(n) ==
    IF n = 0 THEN {Empty}
    ELSE LET S == Names(n - 1) IN S \cup {Append(t, f) : t \in S, f \in Fragments}

\* the type names of the list not among those, and names of the engine
\* that no rule is written for
SampleNames ==
    { INT16, FLOAT32, <<"VARCHAR">>, <<"BIG", "INT">>, <<"U", "HUGE", "INT">>,
      <<"DECIMAL", "(", "3", "8", ",", "1", "0", ")">>, <<"U", "SMALL", "INT">> }

TypeNames == Names(MaxLen) \cup SampleNames

\* a column of which the rule has not been chosen yet
ColumnOfType(typeName) ==
    [op |-> "select", typeName |-> typeName, converted |-> FALSE, rule |-> 0]

\* the rule of a column is chosen from the list Converters() returns (lines
\* 181-183)
SelectConverter ==
    /\ convRes.op = "select"
    /\ ~convRes.converted
    /\ convRes' = [convRes EXCEPT !.converted = TRUE,
                                  !.rule = FirstMatch(GetConverterList, 1, convRes.typeName)]
    /\ UNCHANGED <<driverVars, macroRes>>

InitSelect ==
    /\ IdleDriver
    /\ macroRes = [name |-> "none"]
    /\ convRes \in {ColumnOfType(typeName) : typeName \in TypeNames}

NextSelect == SelectConverter

SpecSelect == InitSelect /\ [][NextSelect]_vars

(***************************************************************************)
(* What the claims speak of                                                *)
(***************************************************************************)
\* the boot sequence connection j builds when it finds Initialized false
FullBoot(j) ==
    LET k == connectors[conns[j].connector]
    IN  BootQueries(homePath, k.cleanPath, k.config)

\* the places of the log where connection j executed a statement
LogOf(j) == {p \in DOMAIN execLog : execLog[p].conn = j}

\* connection j executed every statement of its boot sequence, each ending well
RanFullBoot(j) ==
    /\ Cardinality(LogOf(j)) = Len(FullBoot(j))
    /\ \A p \in LogOf(j) : execLog[p].ok

\* a connection has been obtained: its callback returned no error
Obtained(j) == conns[j].pc = "done" /\ conns[j].err = NoError

\* the connections of connector k
ConnsOf(k) == {j \in DOMAIN conns : conns[j].connector = k}

\* some connection of connector k executed the whole boot sequence
BootApplied(k) == \E j \in ConnsOf(k) : RanFullBoot(j)

\* a boot on connector k failed after its first statement and no later boot
\* on k ran to its end
StoppedPartway(k) ==
    \E p \in DOMAIN execLog :
        /\ conns[execLog[p].conn].connector = k
        /\ ~execLog[p].ok
        /\ execLog[p].idx > 1
        /\ ~\E j \in ConnsOf(k) : RanFullBoot(j) /\ \A q \in LogOf(j) : q > p

(***************************************************************************)
(* C1                                                                      *)
(***************************************************************************)
\* C1: while no boot statement has failed, all the statements ever executed
\* are those of one connection's boot sequence, each executed once and in
\* order; every Connect call has returned a handle; every callback that
\* returned has returned no error; and once a connection has been obtained
\* the flag is set and that one boot sequence has been executed to its end.
C1_IdempotentBoot ==
    NumFailures = 0 =>
        /\ \A p, q \in DOMAIN execLog : execLog[p].conn = execLog[q].conn
        /\ \A p \in DOMAIN execLog :
              /\ execLog[p].idx = p
              /\ execLog[p].stmt = FullBoot(execLog[p].conn)[p]
        /\ \A i \in DOMAIN calls :
              /\ calls[i].err = NoError
              /\ calls[i].db \in DOMAIN connectors
        /\ \A j \in DOMAIN conns : conns[j].err = NoError
        /\ (\E j \in DOMAIN conns : Obtained(j)) =>
              /\ Initialized
              /\ execLog # << >> => RanFullBoot(execLog[1].conn)

\* every call has returned, two connections of two different connectors have
\* been obtained, and a boot sequence has been executed
C1_Witness ==
    /\ NumFailures = 0
    /\ Len(calls) = NCalls
    /\ execLog # << >>
    /\ \E j1, j2 \in DOMAIN conns :
          /\ Obtained(j1) /\ Obtained(j2)
          /\ conns[j1].connector # conns[j2].connector

(***************************************************************************)
(* C2                                                                      *)
(***************************************************************************)
\* C2: a callback that returns an error holds the lock with the flag false,
\* and its error is that of the statement it executed last, which failed; the
\* statement executed next after a failed one is the first statement of another
\* connection's boot sequence; every connection executes its boot sequence
\* statement by statement from the first; and a callback returns without
\* having executed anything only if the flag is set or it has nothing to execute.
C2_BootRetry ==
    /\ \A j \in DOMAIN conns : conns[j].err # NoError =>
          /\ mu = j => ~Initialized
          /\ \E p \in LogOf(j) :
                /\ ~execLog[p].ok
                /\ conns[j].err = ExecError(execLog[p].stmt)
                /\ \A q \in LogOf(j) : q <= p
    /\ \A p \in DOMAIN execLog : p < Len(execLog) /\ ~execLog[p].ok =>
          /\ execLog[p + 1].conn # execLog[p].conn
          /\ execLog[p + 1].idx = 1
    /\ \A p \in DOMAIN execLog :
          /\ execLog[p].idx \in DOMAIN FullBoot(execLog[p].conn)
          /\ execLog[p].stmt = FullBoot(execLog[p].conn)[execLog[p].idx]
          /\ execLog[p].idx > 1 =>
                /\ execLog[p - 1].conn = execLog[p].conn
                /\ execLog[p - 1].idx = execLog[p].idx - 1
                /\ execLog[p - 1].ok
    /\ \A j \in DOMAIN conns :
          conns[j].pc \in {"ret", "done"} /\ LogOf(j) = {} =>
              Initialized \/ FullBoot(j) = << >>

\* a boot failed after its first statement, and a later connection has
\* executed its whole boot sequence
C2_Witness ==
    \E p \in DOMAIN execLog :
        /\ ~execLog[p].ok
        /\ execLog[p].idx > 1
        /\ \E j \in DOMAIN conns :
              /\ RanFullBoot(j)
              /\ \A q \in LogOf(j) : q > p
              /\ Obtained(j)

(***************************************************************************)
(* C3                                                                      *)
(***************************************************************************)
\* C3: every connection handed out comes from a connector on which the boot
\* sequence was executed: no caller holds a connection of a connector on
\* which the boot statements were never applied.
C3_SharedConnector ==
    \A j \in DOMAIN conns : Obtained(j) => BootApplied(conns[j].connector)

(***************************************************************************)
(* C4                                                                      *)
(***************************************************************************)
\* the place of a kind of statement in the order the boot sequence is to have
Rank(kind) ==
    CASE kind = "dir" -> 1
      [] kind = "install" -> 2
      [] kind = "load" -> 3
      [] kind = "token" -> 4
      [] kind = "attach" -> 5
      [] kind = "init" -> 6

\* C4: the statements one connection executes come in the order directory
\* settings, INSTALL, LOAD, token SET, ATTACH, init SQL, so every directory
\* setting comes before the extension is loaded and the token SET before the
\* ATTACH; they are the statements of its boot sequence, one after the other;
\* and after a statement that failed the connection executes nothing.
C4_BootOrdering ==
    /\ \A p, q \in DOMAIN execLog :
          p < q /\ execLog[p].conn = execLog[q].conn =>
              /\ Rank(execLog[p].stmt.kind) <= Rank(execLog[q].stmt.kind)
              /\ execLog[p].stmt.kind = execLog[q].stmt.kind => execLog[p].stmt.kind = "dir"
              /\ execLog[p].ok
    /\ \A p \in DOMAIN execLog :
          /\ execLog[p].idx = Cardinality({q \in LogOf(execLog[p].conn) : q <= p})
          /\ execLog[p].stmt = FullBoot(execLog[p].conn)[execLog[p].idx]
    /\ \A j \in DOMAIN conns :
          Obtained(j) /\ LogOf(j) # {} => RanFullBoot(j)

\* a boot of all the kinds of statement has been executed to its end
C4_Witness ==
    \E j \in DOMAIN conns :
        /\ Obtained(j)
        /\ RanFullBoot(j)
        /\ {execLog[p].stmt.kind : p \in LogOf(j)} =
              {"dir", "install", "load", "token", "attach", "init"}

(***************************************************************************)
(* C5                                                                      *)
(***************************************************************************)
\* C5: no boot statement fails because a request was cancelled; a callback
\* that executed a statement returns either with no error, the flag set and
\* its whole boot sequence executed, or with the error of a statement that
\* failed; and no connection is obtained from a connector whose boot stopped
\* partway.
C5_CancellationIsolation ==
    /\ \A j \in DOMAIN conns : conns[j].err.type # "Canceled"
    /\ \A j \in DOMAIN conns :
          conns[j].pc \in {"ret", "done"} /\ LogOf(j) # {} =>
              \/ conns[j].err = NoError /\ RanFullBoot(j) /\ Initialized
              \/ conns[j].err.type = "ExecError" /\ \E p \in LogOf(j) : ~execLog[p].ok
    /\ \A j \in DOMAIN conns : Obtained(j) => ~StoppedPartway(conns[j].connector)

(***************************************************************************)
(* C6                                                                      *)
(***************************************************************************)
\* the call's target, trimmed, starts with md: and its token is empty
MissingToken(config) ==
    HasPrefix(TrimSpace(config.Path), MdPrefix) /\ config.Token = Empty

\* C6: a call whose trimmed target starts with md: and whose token is empty
\* has returned a ConfigError and no handle; as it is the only call made, no
\* connector exists, no connection was opened, the lock is free, nothing was
\* executed and the flag is as it was.
C6_FailFastMissingToken ==
    \A i \in DOMAIN calls : MissingToken(calls[i].config) =>
        /\ calls[i].err.type = "ConfigError"
        /\ calls[i].db = 0
        /\ Len(connectors) = Cardinality({c \in DOMAIN calls : calls[c].db # 0})
        /\ Len(calls) = 1 =>
              /\ connectors = << >>
              /\ conns = << >>
              /\ mu = 0
              /\ execLog = << >>
              /\ ~Initialized

\* a call with a remote target and no token has returned
C6_Witness ==
    \E i \in DOMAIN calls :
        /\ MissingToken(calls[i].config)
        /\ calls[i].config.Path # TrimSpace(calls[i].config.Path)
        /\ calls[i].err.type = "ConfigError"

(***************************************************************************)
(* C7                                                                      *)
(***************************************************************************)
Quotes == {SQ, DQ}

\* a target between an opening quote and the same quote closing it
WrappedInQuotes(t) == Len(t) >= 2 /\ t[1] \in Quotes /\ t[Len(t)] = t[1]

\* a target whose first and last character are the same quote: a wrapped
\* target, or one quote alone
QuoteAtBothEnds(t) == t # Empty /\ t[1] \in Quotes /\ t[Len(t)] = t[1]

InvalidPath(call) ==
    /\ call.err.type = "ConfigError"
    /\ Head(call.err.Msg) = "Invalid path: "
    /\ call.db = 0

HasAttach(k) ==
    \E q \in DOMAIN BootQueries(homePath, connectors[k].cleanPath, connectors[k].config) :
        BootQueries(homePath, connectors[k].cleanPath, connectors[k].config)[q].kind = "attach"

\* the call went the remote way: the token was asked for, and the connector,
\* if one was made, is the in-memory engine with an ATTACH in its boot
RemoteMode(call) ==
    /\ ~InvalidPath(call)
    /\ call.config.Token = Empty => call.err.type = "ConfigError"
    /\ call.config.Token # Empty =>
          /\ call.db # 0
          /\ connectors[call.db].path = Empty
          /\ HasAttach(call.db)

\* the call went the local-file way: the connector, unless the file could not
\* be opened, is opened on the trimmed target and has no ATTACH in its boot
LocalFileMode(call) ==
    /\ call.err \in {NoError, OpenError}
    /\ call.err = NoError =>
          /\ call.db # 0
          /\ connectors[call.db].path = TrimSpace(call.config.Path)
          /\ ~HasAttach(call.db)

InMemoryMode(call) ==
    /\ call.err = NoError
    /\ call.db # 0
    /\ connectors[call.db].path = Empty
    /\ ~HasAttach(call.db)

\* the routing of a call, given which targets count as quoted
Routing(call, quoted) ==
    LET t == TrimSpace(call.config.Path)
    IN  /\ quoted => InvalidPath(call)
        /\ ~quoted /\ HasPrefix(t, MdPrefix) => RemoteMode(call)
        /\ ~quoted /\ ~HasPrefix(t, MdPrefix) /\ t # Empty => LocalFileMode(call)
        /\ t = Empty => InMemoryMode(call)

\* C7 as stated: a trimmed target wrapped in matching quotes is rejected as an
\* invalid path; any other target goes the remote way when it starts with md:,
\* the local-file way when it is not empty, the in-memory way when it is.
C7_PathRouting ==
    \A i \in DOMAIN calls :
        Routing(calls[i], WrappedInQuotes(TrimSpace(calls[i].config.Path)))

\* C7 as amended: a trimmed target whose first and last character are the same
\* quote, be it one quote character alone, is rejected as an invalid path; any
\* other target goes the remote way when it starts with md:, the local-file
\* way when it is not empty, the in-memory way when it is.
C7_PathRoutingAmended ==
    \A i \in DOMAIN calls :
        Routing(calls[i], QuoteAtBothEnds(TrimSpace(calls[i].config.Path)))

\* a call whose trimmed target is one quote character has been rejected
C7_Witness ==
    \E i \in DOMAIN calls :
        /\ Len(TrimSpace(calls[i].config.Path)) = 1
        /\ QuoteAtBothEnds(TrimSpace(calls[i].config.Path))
        /\ InvalidPath(calls[i])

(***************************************************************************)
(* C8                                                                      *)
(***************************************************************************)
\* reads a single-quoted SQL literal from the character after its opening
\* quote on: the text it stands for and what follows its closing quote
RECURSIVE ScanLiteral(_)
ScanLiteral(s) ==
    IF s = Empty THEN [closed |-> FALSE, value |-> Empty, rest |-> Empty]
    ELSE IF Head(s) = SQ
    THEN IF Len(s) >= 2 /\ s[2] = SQ
         THEN LET r == ScanLiteral(Drop(s, 2))
              IN  [r EXCEPT !.value = <<SQ>> \o @]
         ELSE [closed |-> TRUE, value |-> Empty, rest |-> Tail(s)]
    ELSE LET r == ScanLiteral(Tail(s))
         IN  [r EXCEPT !.value = <<Head(s)>> \o @]

\* the statement is ATTACH IF NOT EXISTS, one literal that reads as the
\* target and ends where the options begin
AttachesExactly(text, target) ==
    /\ Len(text) >= 4
    /\ text[1] = "ATTACH IF NOT EXISTS "
    /\ text[2] = SQ
    /\ LET r == ScanLiteral(Drop(text, 2))
       IN  /\ r.closed
           /\ r.value = target
           /\ r.rest = <<" (TYPE motherduck);">>

\* C8: the boot sequence built on a connector of a remote target has one
\* ATTACH statement, and every ATTACH statement built or executed holds the
\* target as one single-quoted literal in which each quote of the target is
\* doubled, so that the literal reads back as the target and nothing of the
\* target is left outside it.
C8_AttachEscaping ==
    /\ \A j \in DOMAIN conns : \A q \in DOMAIN conns[j].bootQueries :
          conns[j].bootQueries[q].kind = "attach" =>
              AttachesExactly(conns[j].bootQueries[q].text,
                              TrimSpace(connectors[conns[j].connector].config.Path))
    /\ \A j \in DOMAIN conns :
          /\ conns[j].pc = "boot"
          /\ HasPrefix(TrimSpace(connectors[conns[j].connector].config.Path), MdPrefix)
          => Cardinality({q \in DOMAIN conns[j].bootQueries :
                             conns[j].bootQueries[q].kind = "attach"}) = 1
    /\ \A p \in DOMAIN execLog :
          execLog[p].stmt.kind = "attach" =>
              AttachesExactly(execLog[p].stmt.text,
                              TrimSpace(calls[1].config.Path))

\* the ATTACH of the target md:weird'name has been executed with its quote doubled
C8_Witness ==
    \E p \in DOMAIN execLog :
        /\ execLog[p].ok
        /\ execLog[p].stmt.text =
              <<"ATTACH IF NOT EXISTS ", SQ, "m", "d", ":", "w", "e", "i", "r", "d",
                SQ, SQ, "n", "a", "m", "e", SQ, " (TYPE motherduck);">>

(***************************************************************************)
(* C9                                                                      *)
(***************************************************************************)
IsDigit(ch) == \E d \in 0..9 : DigitChars[d + 1] = ch

DigitValue(ch) == CHOOSE d \in 0..9 : DigitChars[d + 1] = ch

\* the number two digits at places i and i+1 stand for
TwoDigits(s, i) == DigitValue(s[i]) * 10 + DigitValue(s[i + 1])

\* the number a string of digits stands for
RECURSIVE DecimalValue(_)
DecimalValue(s) ==
    IF s = Empty THEN 0
    ELSE DecimalValue(SubSeq(s, 1, Len(s) - 1)) * 10 + DigitValue(s[Len(s)])

\* an argument of nothing but white space
Blank(arg) == \A i \in DOMAIN arg : arg[i] \in {" ", "\t", "\n"}

\* the arguments of a call with nothing between its parentheses
EmptyCall(args) == args = << >> \/ (Len(args) = 1 /\ Blank(args[1]))

\* ts is YYYY-MM-DDTHH:MM:SSZ and names the instant t
ReadsAsUTC(ts, t) ==
    /\ Len(ts) = 20
    /\ SubSeq(ts, 1, 5) = <<"1", "9", "7", "0", "-">>
    /\ ts[8] = "-" /\ ts[11] = "T" /\ ts[14] = ":" /\ ts[17] = ":" /\ ts[20] = "Z"
    /\ \A i \in {6, 7, 9, 10, 12, 13, 15, 16, 18, 19} : IsDigit(ts[i])
    /\ TwoDigits(ts, 6) \in {1, 2}
    /\ TwoDigits(ts, 9) >= 1
    /\ TwoDigits(ts, 12) < 24 /\ TwoDigits(ts, 15) < 60 /\ TwoDigits(ts, 18) < 60
    /\ LET days == (IF TwoDigits(ts, 6) = 1 THEN 0 ELSE DaysOfJanuary) + TwoDigits(ts, 9) - 1
       IN  days * SecondsPerDay + TwoDigits(ts, 12) * 3600 + TwoDigits(ts, 15) * 60
           + TwoDigits(ts, 18) = t.unix

\* C9: a macro called with no argument, or with one blank argument, returns
\* no error and, between single quotes, the UTC timestamp of the from bound
\* (timeFrom) or of the to bound (timeTo) of the request; called with any
\* other arguments it returns no text and the error "expected 0 arguments,
\* received N", N being the number of arguments.
C9_MacroArgumentCheck ==
    macroRes.name \in {"timeFrom", "timeTo"} /\ macroRes.expanded =>
        LET bound == IF macroRes.name = "timeFrom"
                     THEN macroRes.query.TimeRange.From
                     ELSE macroRes.query.TimeRange.To
            res == macroRes.res
        IN  IF EmptyCall(macroRes.args)
            THEN /\ res.err = NoError
                 /\ Len(res.out) = 22
                 /\ res.out[1] = SQ /\ res.out[22] = SQ
                 /\ ReadsAsUTC(SubSeq(res.out, 2, 21), bound)
            ELSE /\ res.out = Empty
                 /\ res.err.type = "ErrorBadArgumentCount"
                 /\ Head(res.err.Msg) = ": expected 0 arguments, received "
                 /\ Len(res.err.Msg) >= 2
                 /\ \A i \in 2..Len(res.err.Msg) : IsDigit(res.err.Msg[i])
                 /\ DecimalValue(Tail(res.err.Msg)) = Len(macroRes.args)

\* timeTo, called with two blank arguments, has returned the error for 2
C9_Witness ==
    /\ macroRes.name = "timeTo"
    /\ macroRes.expanded
    /\ macroRes.args = << <<" ">>, Empty >>
    /\ macroRes.res.out = Empty
    /\ macroRes.res.err.Msg = <<": expected 0 arguments, received ", "2">>

(***************************************************************************)
(* C10                                                                     *)
(***************************************************************************)
\* the words of abs from the i-th on, times m, plus carry
RECURSIVE TimesPlus(_, _, _, _)
TimesPlus(abs, i, carry, m) ==
    IF i > Len(abs) THEN (IF carry = 0 THEN << >> ELSE <<carry>>)
    ELSE LET cur == abs[i] * m + carry
         IN  <<cur % WordBase>> \o TimesPlus(abs, i + 1, cur \div WordBase, m)

\* the magnitude a string of digits stands for: that of the digits before
\* the last three, times a thousand, plus the number of the last three
RECURSIVE MagnitudeOf(_)
MagnitudeOf(s) ==
    IF Len(s) <= 3 THEN Norm(<<DecimalValue(s)>>)
    ELSE Norm(TimesPlus(MagnitudeOf(SubSeq(s, 1, Len(s) - 3)), 1,
                        DecimalValue(SubSeq(s, Len(s) - 2, Len(s))), 1000))

\* str is the base-10 text of x: a minus sign if and only if x is negative,
\* then digits with no zero in front (one zero for zero) that stand for
\* the magnitude of x
ExactDecimal(str, x) ==
    LET digits == IF str # Empty /\ Head(str) = "-" THEN Tail(str) ELSE str
    IN  /\ digits # Empty
        /\ \A i \in DOMAIN digits : IsDigit(digits[i])
        /\ Head(digits) = "0" => digits = <<"0">>
        /\ (str # digits) <=> x.neg
        /\ MagnitudeOf(digits) = x.abs

\* C10: the HUGEINT converter turns SQL NULL into the nil string, which is
\* neither "0" nor the empty string, and a big.Int into the string that is
\* exactly its value in base 10, whatever its size.
C10_HugeIntConversion ==
    convRes.op = "HUGEINT" /\ convRes.converted =>
        /\ convRes.value.kind = "nil" =>
              /\ convRes.err = NoError
              /\ convRes.out.isNil
              /\ convRes.out \notin {StringPtr(<<"0">>), StringPtr(Empty)}
        /\ convRes.value.kind = "bigint" =>
              /\ convRes.err = NoError
              /\ ~convRes.out.isNil
              /\ ExactDecimal(convRes.out.str, convRes.value.v)

\* -(2^64) has been converted to -18446744073709551616
C10_Witness ==
    /\ convRes.op = "HUGEINT"
    /\ convRes.converted
    /\ convRes.value = BigIntValue(BigInt(TRUE, <<0, 0, 0, 0, 1>>))
    /\ convRes.out = StringPtr(<<"-", "1", "8", "4", "4", "6", "7", "4", "4", "0", "7",
                                 "3", "7", "0", "9", "5", "5", "1", "6", "1", "6">>)

(***************************************************************************)
(* C11                                                                     *)
(***************************************************************************)
\* the digits without the zeros in front, the last digit kept
RECURSIVE StripZeros(_)
StripZeros(digits) ==
    IF Len(digits) > 1 /\ Head(digits) = "0" THEN StripZeros(Tail(digits)) ELSE digits

\* text is a base-10 integer: a sign or none, then one digit or more
IsDecimalInteger(text) ==
    LET digits == IF text # Empty /\ Head(text) \in {"+", "-"} THEN Tail(text) ELSE text
    IN  digits # Empty /\ \A i \in DOMAIN digits : IsDigit(digits[i])

\* text is a base-10 integer of the range of an int16
InInt16Range(text) ==
    /\ IsDecimalInteger(text)
    /\ LET digits == StripZeros(IF Head(text) \in {"+", "-"} THEN Tail(text) ELSE text)
       IN  /\ Len(digits) <= 5
           /\ IF Head(text) = "-" THEN DecimalValue(digits) <= 32768
                                  ELSE DecimalValue(digits) <= 32767

\* the integer such a text stands for
IntegerOf(text) ==
    LET digits == StripZeros(IF Head(text) \in {"+", "-"} THEN Tail(text) ELSE text)
    IN  IF Head(text) = "-" THEN 0 - DecimalValue(digits) ELSE DecimalValue(digits)

\* C11: for each narrow integer type name the converter returns the int16
\* value of a text that is a base-10 integer in [-32768, 32767], null for a
\* null text, and an error with no value for every other text: a failed
\* parse is never turned into null without an error, zero or a wrapped value.
C11_NarrowTypeParsing ==
    convRes.op \in NarrowTypeNames /\ convRes.converted =>
        IF convRes.value.isNil
        THEN convRes.err = NoError /\ convRes.out.isNil
        ELSE IF InInt16Range(convRes.value.str)
        THEN /\ convRes.err = NoError
             /\ convRes.out = Int16Ptr(IntegerOf(convRes.value.str))
        ELSE /\ convRes.err # NoError
             /\ convRes.out.isNil

\* "32000" of a SMALLINT column has become 32000
C11_Witness ==
    /\ convRes.op = SMALLINT
    /\ convRes.converted
    /\ convRes.value = StringPtr(<<"3", "2", "0", "0", "0">>)
    /\ convRes.err = NoError
    /\ convRes.out = Int16Ptr(32000)

(***************************************************************************)
(* C12                                                                     *)
(***************************************************************************)
\* the rules of the list that apply to a type name
Applicable(typeName) ==
    {i \in DOMAIN GetConverterList : ConverterMatches(GetConverterList[i], typeName)}

\* rule i is written for exactly this type name
ExactRule(i, typeName) == GetConverterList[i].InputTypeName = typeName

\* rule i applies to this type name by its pattern
RegexRule(i, typeName) ==
    /\ ~GetConverterList[i].InputTypeRegex.isNil
    /\ MatchString(GetConverterList[i].InputTypeRegex, typeName)

\* C12: for every native type name exactly one rule of the converter list
\* applies, and it is the rule chosen, or none applies and the value passes
\* through unconverted; a rule for the exact type name is chosen before the
\* DECIMAL pattern rule, which is chosen only when no exact rule applies.
C12_ConverterSelection ==
    convRes.op = "select" /\ convRes.converted =>
        LET A == Applicable(convRes.typeName)
        IN  /\ Cardinality(A) <= 1
            /\ A = {} <=> convRes.rule = 0
            /\ A # {} => convRes.rule \in A
            /\ (\E i \in A : ExactRule(i, convRes.typeName))
                  => ExactRule(convRes.rule, convRes.typeName)
            /\ (convRes.rule # 0 /\ ~ExactRule(convRes.rule, convRes.typeName))
                  => /\ RegexRule(convRes.rule, convRes.typeName)
                     /\ \A i \in DOMAIN GetConverterList :
                           ~ExactRule(i, convRes.typeName)

\* DECIMAL(18,3) has got the decimal rule
C12_Witness ==
    /\ convRes.op = "select"
    /\ convRes.converted
    /\ convRes.typeName = <<"DECIMAL", "(18,3)">>
    /\ convRes.rule = 2
    /\ GetConverterList[2].Name = "NULLABLE decimal converter"

(***************************************************************************)
(* C13                                                                     *)
(***************************************************************************)
\* C13: the flag is the driver's: once it is set, after a boot that ended
\* well, no step clears it and no step executes a boot statement, whichever
\* connector the connection belongs to and whatever target, token or init
\* SQL that connector was made with.
C13_DriverWideFlag ==
    [][Initialized => (Initialized' /\ execLog' = execLog)]_vars

\* with the flag set by the connection of another connector, a connection
\* of a connector made with other settings, which has statements to boot
\* with, has been obtained without one of them executed
C13_Witness ==
    /\ Initialized
    /\ \E j \in DOMAIN conns :
          /\ Obtained(j)
          /\ FullBoot(j) # << >>
          /\ LogOf(j) = {}
          /\ \E k \in DOMAIN connectors :
                /\ k < conns[j].connector
                /\ connectors[k].config # connectors[conns[j].connector].config
                /\ \E h \in ConnsOf(k) : Obtained(h)

(***************************************************************************)
(* C14                                                                     *)
(***************************************************************************)
\* the connections whose callback is between d.mu.Lock() and the Unlock
Inside == {j \in DOMAIN conns : conns[j].pc \in {"boot", "ret"}}

\* the statements a connection executed stand together in the log
NoInterleaving ==
    \A p, q, r \in DOMAIN execLog :
        (p < q /\ q < r /\ execLog[p].conn = execLog[r].conn)
            => execLog[q].conn = execLog[p].conn

\* a callback that has returned, with an error or without, does not hold
\* the lock, and the lock is held by none but a callback inside
ReleasedOnExit ==
    /\ \A j \in DOMAIN conns : conns[j].pc = "done" => mu # j
    /\ mu = 0 <=> Inside = {}
    /\ mu # 0 => Inside = {mu}

\* the callback of connection j waits for the lock
Waiting(j) == j <= Len(conns) /\ conns[j].pc = "lock"

\* the callback of connection j has got the lock
Entered(j) == j <= Len(conns) /\ conns[j].pc # "lock"

\* C14: at most one callback is inside the guarded section at any time, so
\* that the statements of two boot attempts never interleave; the lock is
\* released on every exit of the callback, also that of a failed boot; and
\* every callback that waits for the lock eventually enters the section.
C14_LockDiscipline ==
    /\ [](Cardinality(Inside) <= 1 /\ NoInterleaving /\ ReleasedOnExit)
    /\ \A j \in 1..MaxConns : Waiting(j) ~> Entered(j)

\* a boot has failed, its callback has returned, and a connection opened
\* before it returned has entered the section after it
C14_Witness ==
    \E j, h \in DOMAIN conns :
        /\ conns[j].pc = "done"
        /\ conns[j].err # NoError
        /\ h # j
        /\ mu = h
        /\ \E p \in LogOf(j) : \E q \in LogOf(h) : p < q

====
